---------------------------- MODULE Spec2Model ----------------------------
(***************************************************************************)
(* Model of the dynamic in-memory resource server of src/app/routes.py     *)
(* (Flask blueprint `api`): the process-wide `database` mapping, the       *)
(* before-request hook and the CRUD handlers.                              *)
(*                                                                         *)
(* Spec      one request at a time, each handler one atomic action.        *)
(* SpecConc  two request threads whose handlers interleave statement by    *)
(*           statement (the development server is threaded and the code    *)
(*           takes no lock).                                               *)
(***************************************************************************)
EXTENDS Integers, Sequences, FiniteSets, TLC

VARIABLES
    heap,       \* the collection dicts that exist, by object identity
    database,   \* routes.py:9  name -> identity of its collection dict
    last,       \* Spec: the latest request and the response it got
    maxIssued,  \* Spec: per name, the largest id a 201 create returned (0: none)
    deleted,    \* Spec: the [name, id] a delete answered 204 for
    pc,         \* SpecConc: per thread, the statement it is about to execute
    tl,         \* SpecConc: per thread, the request and the handler's locals
    log         \* SpecConc: the responses sent so far, in order of completion

vars == <<heap, database, last, maxIssued, deleted, pc, tl, log>>

\* ------------------------------------------------------------- bounds
\* Spec: creates that reach the store (over all collections).
MaxCreates == 2
\* SpecConc: requests each thread serves.
MaxReqs == 2

Names == {"widgets", "gadgets"}
Ids == 1..MaxCreates
\* SpecConc: the request threads of the server, and what they are sent.
Threads == {1, 2}
ConcName == "widgets"
ConcIds == {1, 2}

\* ------------------------------------------------------------- JSON values
\* A JSON value is [t |-> kind, v |-> content]; an object's content is a
\* function from keys to leaf values, an array's a tuple.
JObj(f) == [t |-> "obj", v |-> f]
JArr(s) == [t |-> "arr", v |-> s]
JStr(s) == [t |-> "str", v |-> s]
JNum(n) == [t |-> "num", v |-> n]
JBool(b) == [t |-> "bool", v |-> b]
\* Python None: g.json_data when there is no JSON body, or the body is null.
None == [t |-> "none", v |-> 0]
\* A request whose content type is not JSON.
NoBody == [t |-> "absent", v |-> 0]
\* A request whose content type is JSON and whose body does not parse.
BadJson == [t |-> "invalid", v |-> 0]
JNull == [t |-> "null", v |-> 0]

EmptyObj == [k \in {} |-> 0]
\* {"description": "timeout", "control": {"timeout": 2}}
TimeoutDirective == [description |-> "timeout", control |-> [timeout |-> 2]]

\* The raw text of a query parameter: absent, an integer literal, other text.
NoArg == [t |-> "absent", v |-> 0]
IntArg(n) == [t |-> "int", v |-> n]
TextArg == [t |-> "text", v |-> 0]

\* The inputs the requests of the model carry.
ValidPayloads ==
    { JObj([a |-> 1]), JObj([a |-> 2, _id |-> 7]), JObj(TimeoutDirective) }
NonObjectBodies == { JArr(<<1>>) }
EmptyBodies == { NoBody, JObj(EmptyObj), JArr(<<>>) }
\* POST: a body without ?error=, or a valid body with ?error=404.
CreateInputs ==
    { [body |-> b, error |-> NoArg] :
          b \in ValidPayloads \cup NonObjectBodies \cup EmptyBodies \cup {BadJson} }
    \cup { [body |-> JObj([a |-> 1]), error |-> IntArg(404)] }
\* PUT and PATCH: an object as a client sends back what it read, or no body.
WriteBodies == { JObj([a |-> 2, _id |-> 7]), NoBody }
\* GET /<name>: ?page= and ?limit=, or ?error=404.
ListInputs ==
    { [page |-> NoArg, limit |-> NoArg, error |-> NoArg],
      [page |-> IntArg(2), limit |-> IntArg(1), error |-> NoArg],
      [page |-> TextArg, limit |-> NoArg, error |-> NoArg],
      [page |-> NoArg, limit |-> TextArg, error |-> NoArg],
      [page |-> NoArg, limit |-> NoArg, error |-> IntArg(404)] }
ErrorArgs == { NoArg, IntArg(404) }

\* ------------------------------------------------------------- Python built-ins
\* Variant: the test `g.json_data is None`.
TruthyNotNone(j) == j.t # "none"
\* bool(x) of a parsed JSON value, as `not g.json_data` evaluates it.
Truthy(j) ==
    CASE j.t = "none" -> FALSE
      [] j.t = "obj"  -> DOMAIN j.v # {}
      [] j.t = "arr"  -> Len(j.v) > 0
      [] j.t = "str"  -> j.v # ""
      [] j.t = "num"  -> j.v # 0
      [] j.t = "bool" -> j.v

\* A dict keeps its entries in insertion order: a sequence of [id, data].
EmptyDict == <<>>
DictKeys(d) == { d[i].id : i \in DOMAIN d }
DictHas(d, k) == k \in DictKeys(d)
DictGet(d, k) == d[CHOOSE i \in DOMAIN d : d[i].id = k].data
DictSet(d, k, x) ==
    IF DictHas(d, k)
    THEN [i \in DOMAIN d |-> IF d[i].id = k THEN [id |-> k, data |-> x] ELSE d[i]]
    ELSE Append(d, [id |-> k, data |-> x])
DictDel(d, k) == SelectSeq(d, LAMBDA e : e.id # k)

\* dict.update(other) on an object's content: other's keys win.
Merge(f, g) == [k \in DOMAIN f \cup DOMAIN g |-> IF k \in DOMAIN g THEN g[k] ELSE f[k]]

\* ------------------------------------------------------------- the store
\* routes.py:44  a collection as get_resource creates it.
InitResource == [items |-> EmptyDict, next_id |-> 1]

\* routes.py:41-45  get or lazily create the collection `name`; `ref` is the
\* identity of the dict the caller gets.
\* Variant: every name is given the one dict made first.
NewRefShared(hp) == 1
NewRef(hp) == Len(hp) + 1
\* Variant: the new collection is handed out but not kept in the database.
RegisterNothing(db, name, ref) == db
Register(db, name, ref) == [n \in DOMAIN db \cup {name} |-> IF n = name THEN ref ELSE db[n]]
get_resource(hp, db, name) ==
    IF name \notin DOMAIN db
    THEN [heap |-> Append(hp, InitResource),
          database |-> Register(db, name, NewRef(hp)),
          ref |-> NewRef(hp)]
    ELSE [heap |-> hp, database |-> db, ref |-> db[name]]

\* Variant: the counter is bumped before the item is stored.
StoreItemAfterBump(res, item_id, data) == [res EXCEPT !.items = DictSet(@, item_id + 1, data)]
\* Variant: the counter is not bumped.
BumpNextIdForgotten(res) == res
\* Variant: delete answers without removing the item.
DeleteFromKeeping(res, item_id) == res
\* Variant: deleting an item hands its id back to the counter.
DeleteFromRecycling(res, item_id) ==
    [res EXCEPT !.items = DictDel(@, item_id), !.next_id = item_id]

\* routes.py:96  resource['items'][item_id] = data
StoreItem(res, item_id, data) == [res EXCEPT !.items = DictSet(@, item_id, data)]
\* routes.py:97  resource['next_id'] += 1
BumpNextId(res) == [res EXCEPT !.next_id = @ + 1]
\* routes.py:372  del resource['items'][item_id]
DeleteFrom(res, item_id) == [res EXCEPT !.items = DictDel(@, item_id)]
\* Variant: patch replaces the stored payload by the partial one.
PatchStoredReplacing(res, item_id, partial) ==
    [res EXCEPT !.items = DictSet(@, item_id, partial)]
\* routes.py:340  resource['items'][item_id].update(g.json_data)
PatchStored(res, item_id, partial) ==
    [res EXCEPT !.items = DictSet(@, item_id, JObj(Merge(DictGet(@, item_id).v, partial.v)))]

\* routes.py:100-101  data.copy() followed by response['_id'] = item_id.
\* A list copies but takes no string key, a str, int or bool has no copy():
\* either way the handler dies with an unhandled exception (500).
CopyRaises(data) == data.t # "obj"
WithId(data, item_id) == JObj(Merge(data.v, [_id |-> item_id]))

\* routes.py:11-18  the before-request hook: g.json_data, or the 400 that
\* request.get_json() raises on a JSON body that does not parse.  It reads
\* no query parameter.
preprocess_json_body(body) ==
    CASE body.t = "absent"  -> [abort |-> FALSE, g |-> None]
      [] body.t = "invalid" -> [abort |-> TRUE, g |-> None]
      [] body.t = "null"    -> [abort |-> FALSE, g |-> None]
      [] OTHER              -> [abort |-> FALSE, g |-> body]

\* What a handler leaves behind: the store, the status and the response body.
Result(hp, db, status, resp) == [heap |-> hp, database |-> db, status |-> status, resp |-> resp]
Aborted(status) == [t |-> "abort", v |-> status]

\* routes.py:90-103
create_item(hp, db, name, g) ==
    LET r == get_resource(hp, db, name)
        resource == r.heap[r.ref]
    IN  IF ~Truthy(g) THEN Result(r.heap, r.database, 400, Aborted(400))
        ELSE LET item_id == resource.next_id
                 stored == BumpNextId(StoreItem(resource, item_id, g))
                 hp2 == [r.heap EXCEPT ![r.ref] = stored]
             IN  IF CopyRaises(g) THEN Result(hp2, r.database, 500, Aborted(500))
                 ELSE Result(hp2, r.database, 201, WithId(g, item_id))

\* routes.py:223-228
get_item(hp, db, name, item_id) ==
    LET r == get_resource(hp, db, name)
        resource == r.heap[r.ref]
    IN  IF DictHas(resource.items, item_id)
        THEN IF CopyRaises(DictGet(resource.items, item_id))
             THEN Result(r.heap, r.database, 500, Aborted(500))
             ELSE Result(r.heap, r.database, 200, WithId(DictGet(resource.items, item_id), item_id))
        ELSE Result(r.heap, r.database, 404, Aborted(404))

\* routes.py:278-288
update_item(hp, db, name, item_id, g) ==
    LET r == get_resource(hp, db, name)
        resource == r.heap[r.ref]
    IN  IF ~Truthy(g) THEN Result(r.heap, r.database, 400, Aborted(400))
        ELSE IF DictHas(resource.items, item_id)
        THEN LET hp2 == [r.heap EXCEPT ![r.ref] = StoreItem(resource, item_id, g)]
             IN  IF CopyRaises(g) THEN Result(hp2, r.database, 500, Aborted(500))
                 ELSE Result(hp2, r.database, 200, WithId(g, item_id))
        ELSE Result(r.heap, r.database, 404, Aborted(404))

\* routes.py:336-345.  dict.update raises on a stored value that is no dict
\* (no update method) and on an argument that is no mapping and no sequence
\* of pairs; nothing is merged then.
UpdateRaises(stored, g) == stored.t # "obj" \/ g.t # "obj"
patch_item(hp, db, name, item_id, g) ==
    LET r == get_resource(hp, db, name)
        resource == r.heap[r.ref]
    IN  IF ~Truthy(g) THEN Result(r.heap, r.database, 400, Aborted(400))
        ELSE IF DictHas(resource.items, item_id)
        THEN IF UpdateRaises(DictGet(resource.items, item_id), g)
             THEN Result(r.heap, r.database, 500, Aborted(500))
             ELSE LET patched == PatchStored(resource, item_id, g)
                  IN  Result([r.heap EXCEPT ![r.ref] = patched], r.database, 200,
                             WithId(DictGet(patched.items, item_id), item_id))
        ELSE Result(r.heap, r.database, 404, Aborted(404))

\* routes.py:370-374
delete_item(hp, db, name, item_id) ==
    LET r == get_resource(hp, db, name)
        resource == r.heap[r.ref]
    IN  IF DictHas(resource.items, item_id)
        THEN Result([r.heap EXCEPT ![r.ref] = DeleteFrom(resource, item_id)],
                    r.database, 204, JObj(EmptyObj))
        ELSE Result(r.heap, r.database, 404, Aborted(404))

\* routes.py:36-37
list_resources(hp, db) == Result(hp, db, 200, [t |-> "names", v |-> DOMAIN db])

\* ------------------------------------------------------------- pagination
\* routes.py:160-161  the defaults of request.args.get.
DefaultPage == 1
DefaultLimit == 20

\* int(request.args.get(key, default)): the default when the parameter is
\* absent, the integer of an integer literal; other text raises ValueError.
ParseFails(arg) == arg.t = "text"
ParseInt(arg, default) == IF arg.t = "absent" THEN default ELSE arg.v

\* Variant: the number of pages rounded down.
CeilDivFloor(n, limit) == n \div limit
\* math.ceil(n / limit) for n >= 0 and limit # 0.
CeilDiv(n, limit) ==
    IF limit > 0 THEN (n + limit - 1) \div limit ELSE 0 - (n \div (0 - limit))

\* Python's seq[start:stop]: a negative index counts from the end, and both
\* indices are clamped to 0..len.
Clamp(i, n) == IF i < 0 THEN (IF i + n < 0 THEN 0 ELSE i + n) ELSE (IF i > n THEN n ELSE i)
PySlice(seq, start, stop) ==
    LET lo == Clamp(start, Len(seq))
        hi == Clamp(stop, Len(seq))
    IN  IF lo < hi THEN SubSeq(seq, lo + 1, hi) ELSE <<>>

\* routes.py:165-169  every stored payload copied with its id, in dict order.
AllItems(items) == [i \in DOMAIN items |-> WithId(items[i].data, items[i].id)]
IterationRaises(items) == \E i \in DOMAIN items : CopyRaises(items[i].data)

\* routes.py:156-190
get_items(hp, db, name, pageArg, limitArg) ==
    LET r == get_resource(hp, db, name)
        resource == r.heap[r.ref]
    IN  IF ParseFails(pageArg) \/ ParseFails(limitArg)
        THEN Result(r.heap, r.database, 400, Aborted(400))
        ELSE LET page == ParseInt(pageArg, DefaultPage)
                 limit == ParseInt(limitArg, DefaultLimit)
             IN  IF IterationRaises(resource.items) \/ limit = 0
                 THEN Result(r.heap, r.database, 500, Aborted(500))
                 ELSE LET all_items == AllItems(resource.items)
                          total_items == Len(all_items)
                          total_pages == CeilDiv(total_items, limit)
                          start_index == (page - 1) * limit
                          end_index == start_index + limit
                      IN  Result(r.heap, r.database, 200,
                                 [t |-> "page",
                                  v |-> [data |-> PySlice(all_items, start_index, end_index),
                                         meta |-> [total_items |-> total_items,
                                                   per_page |-> limit,
                                                   current_page |-> page,
                                                   total_pages |-> total_pages]]])

\* ------------------------------------------------------------- one request at a time
Ref(name) == database[name]
Coll(name) == heap[database[name]]
\* The collection `name` as a request finds it: get_resource makes an unknown
\* name an empty collection.
View(hp, db, name) == IF name \in DOMAIN db THEN hp[db[name]] ELSE InitResource
\* Ids handed out so far, over every collection.
RECURSIVE SumNextIds(_)
SumNextIds(hp) == IF hp = <<>> THEN 0 ELSE (Head(hp).next_id - 1) + SumNextIds(Tail(hp))

\* A thread between requests, having served n of them.
Idle(n) ==
    [op |-> "none", name |-> "", id |-> 0, g |-> None, resource |-> 0, item_id |-> 0,
     tmp |-> 0, pos |-> 0, left |-> 0, all_items |-> <<>>, snaps |-> {}, served |-> n]

NoRequest ==
    [op |-> "none", name |-> "", id |-> 0, body |-> NoBody, error |-> NoArg,
     page |-> NoArg, limit |-> NoArg, status |-> 0, resp |-> Aborted(0)]

Init ==
    /\ heap = <<>>
    /\ database = [n \in {} |-> 0]
    /\ last = NoRequest
    /\ maxIssued = [n \in Names |-> 0]
    /\ deleted = {}
    /\ pc = [t \in Threads |-> "idle"]
    /\ tl = [t \in Threads |-> Idle(0)]
    /\ log = <<>>

\* A request served start to end: the before-request hook, then the handler
\* `out` unless the hook aborted.
Serve(req, hook, out) ==
    LET res == IF hook.abort THEN Result(heap, database, 400, Aborted(400)) ELSE out
    IN  /\ heap' = res.heap
        /\ database' = res.database
        /\ last' = [req EXCEPT !.status = res.status, !.resp = res.resp]
        /\ maxIssued' = IF req.op = "create" /\ res.status = 201
                         THEN [maxIssued EXCEPT ![req.name] = res.resp.v._id]
                         ELSE maxIssued
        /\ deleted' = IF req.op = "delete" /\ res.status = 204
                       THEN deleted \cup {[name |-> req.name, id |-> req.id]}
                       ELSE deleted
        /\ UNCHANGED <<pc, tl, log>>

\* POST /<resource_name>
CreateOf(inputs) ==
    \E name \in Names, in \in inputs :
        LET hook == preprocess_json_body(in.body)
        IN  /\ (hook.abort \/ ~Truthy(hook.g) \/ SumNextIds(heap) < MaxCreates)
            /\ Serve([NoRequest EXCEPT !.op = "create", !.name = name, !.body = in.body,
                                        !.error = in.error],
                     hook, create_item(heap, database, name, hook.g))
Create == CreateOf(CreateInputs)

\* GET /<resource_name>
List ==
    \E name \in Names, in \in ListInputs :
        Serve([NoRequest EXCEPT !.op = "list", !.name = name, !.error = in.error,
                                !.page = in.page, !.limit = in.limit],
              preprocess_json_body(NoBody),
              get_items(heap, database, name, in.page, in.limit))

\* GET /<resource_name>/<item_id>
Get ==
    \E name \in Names, id \in Ids, error \in ErrorArgs :
        \* ?error=404 on the first id only
        /\ (error = NoArg \/ id = 1)
        /\ Serve([NoRequest EXCEPT !.op = "get", !.name = name, !.id = id, !.error = error],
              preprocess_json_body(NoBody), get_item(heap, database, name, id))

\* PUT /<resource_name>/<item_id>
ReplaceOf(bodies) ==
    \E name \in Names, id \in Ids, body \in bodies :
        LET hook == preprocess_json_body(body)
        IN  Serve([NoRequest EXCEPT !.op = "replace", !.name = name, !.id = id,
                                    !.body = body],
                  hook, update_item(heap, database, name, id, hook.g))
Replace == ReplaceOf(WriteBodies)

\* PATCH /<resource_name>/<item_id>
PatchOf(bodies) ==
    \E name \in Names, id \in Ids, body \in bodies :
        LET hook == preprocess_json_body(body)
        IN  Serve([NoRequest EXCEPT !.op = "patch", !.name = name, !.id = id,
                                    !.body = body],
                  hook, patch_item(heap, database, name, id, hook.g))
Patch == PatchOf(WriteBodies)

\* DELETE /<resource_name>/<item_id>
Delete ==
    \E name \in Names, id \in Ids :
        Serve([NoRequest EXCEPT !.op = "delete", !.name = name, !.id = id],
              preprocess_json_body(NoBody), delete_item(heap, database, name, id))

\* GET /
ListResources ==
    \E body \in {NoBody, BadJson} :
        Serve([NoRequest EXCEPT !.op = "names", !.body = body],
              preprocess_json_body(body), list_resources(heap, database))

Next == Create \/ List \/ Get \/ Replace \/ Patch \/ Delete \/ ListResources

Spec == Init /\ [][Next]_vars

\* ------------------------------------------------------------- writes alone
\* Creates of {"a": 1}, then replace, patch and delete with every kind of
\* body: an object, the empty object, none.
PlainCreates == { [body |-> JObj([a |-> 1]), error |-> NoArg] }
AnyWriteBodies == WriteBodies \cup { JObj(EmptyObj) }
WriteCreate == CreateOf(PlainCreates)
WriteReplace == ReplaceOf(AnyWriteBodies)
WritePatch == PatchOf(AnyWriteBodies)

NextWrite == WriteCreate \/ WriteReplace \/ WritePatch \/ Delete

SpecWrite == Init /\ [][NextWrite]_vars

\* ------------------------------------------------------------- pagination alone
\* get_items over a collection of any size, with any integer page and limit.
MaxItems == 5
MaxPage == 4
MaxLimit == 3
PagedName == "widgets"

\* A collection after creates of {"a": 1} with ids lo..hi left in it (the
\* ids below lo deleted since): routes.py:94-97 and 372.
Stocked(lo, hi) ==
    [items |-> [i \in 1..(hi + 1 - lo) |-> [id |-> lo + i - 1, data |-> JObj([a |-> 1])]],
     next_id |-> hi + 1]
\* 0..MaxItems items; 1..MaxItems - 1 items after the first was deleted; and
\* the 45 items that make three pages of the default limit.
Stocks ==
    { Stocked(1, n) : n \in 0..MaxItems } \cup { Stocked(2, n) : n \in 2..MaxItems }
        \cup { Stocked(1, 45) }
PageArgs == { NoArg } \cup { IntArg(p) : p \in (0 - MaxPage)..MaxPage }
LimitArgs == { NoArg } \cup { IntArg(l) : l \in (0 - MaxLimit)..MaxLimit }

InitPage ==
    /\ \E stock \in Stocks : heap = <<stock>>
    /\ database = [n \in {PagedName} |-> 1]
    /\ last = NoRequest
    /\ maxIssued = [n \in Names |-> 0]
    /\ deleted = {}
    /\ pc = [t \in Threads |-> "idle"]
    /\ tl = [t \in Threads |-> Idle(0)]
    /\ log = <<>>

\* GET /<resource_name>?page=..&limit=..
ListPage ==
    \E page \in PageArgs, limit \in LimitArgs :
        Serve([NoRequest EXCEPT !.op = "list", !.name = PagedName,
                                !.page = page, !.limit = limit],
              preprocess_json_body(NoBody),
              get_items(heap, database, PagedName, page, limit))

NextPage == ListPage

SpecPage == InitPage /\ [][NextPage]_vars

\* ------------------------------------------------------------- interleaved requests
\* Each thread runs one handler at a time, statement by statement; a thread
\* switch may fall between any two accesses to the shared dicts.
ConcBodies == { JObj([a |-> 1]), JObj([a |-> 2]), NoBody }

\* The response of thread t leaves; tls is what the step made of the threads'
\* locals before. data is the "data" of a list response, snaps what the
\* collection held at some time while the list request was served.
Answer(tls, t, status, id, data) ==
    /\ log' = Append(log, [th |-> t, op |-> tl[t].op, name |-> tl[t].name,
                            status |-> status, id |-> id, g |-> tl[t].g,
                            data |-> data, snaps |-> tls[t].snaps])
    /\ pc' = [pc EXCEPT ![t] = "idle"]
    /\ tl' = [tls EXCEPT ![t] = Idle(tl[t].served + 1)]

Respond(t, status, id) == Answer(tl, t, status, id, <<>>)

Goto(t, label) == pc' = [pc EXCEPT ![t] = label]

\* Every thread serving a list request notes what its collection holds now.
Watch(tls, hp, db) ==
    [u \in Threads |->
        IF tls[u].op = "list"
        THEN [tls[u] EXCEPT !.snaps = @ \cup {AllItems(View(hp, db, tls[u].name).items)}]
        ELSE tls[u]]

\* A dict iterator's cursor indexes the dict's entry table, where a deleted
\* entry leaves a hole. The model's dict has no holes: when its j-th entry
\* goes, the cursor of an iterator that is past it moves with the entries.
\* (The table is compacted only when it grows beyond 5 entries.)
Unholed(tls, ref, j) ==
    [u \in Threads |->
        IF pc[u] = "l166n" /\ tls[u].resource = ref /\ j <= tls[u].pos
        THEN [tls[u] EXCEPT !.pos = @ - 1]
        ELSE tls[u]]
DictIndex(d, k) == CHOOSE i \in DOMAIN d : d[i].id = k

\* A request arrives; the before-request hook (routes.py:16-18) fills g.
StartCreate(t) ==
    /\ pc[t] = "idle" /\ tl[t].served < MaxReqs
    /\ \E body \in ConcBodies :
           tl' = [tl EXCEPT ![t] = [@ EXCEPT !.op = "create", !.name = ConcName,
                                             !.g = preprocess_json_body(body).g]]
    /\ Goto(t, "gr43")
    /\ UNCHANGED <<heap, database, last, maxIssued, deleted, log>>

StartDelete(t) ==
    /\ pc[t] = "idle" /\ tl[t].served < MaxReqs
    /\ \E id \in ConcIds :
           tl' = [tl EXCEPT ![t] = [@ EXCEPT !.op = "delete", !.name = ConcName, !.id = id]]
    /\ Goto(t, "gr43")
    /\ UNCHANGED <<heap, database, last, maxIssued, deleted, log>>

\* routes.py:43  if resource_name not in database
GrCheck(t) ==
    /\ pc[t] = "gr43"
    /\ Goto(t, IF tl[t].name \notin DOMAIN database THEN "gr44" ELSE "gr45")
    /\ UNCHANGED <<heap, database, last, maxIssued, deleted, tl, log>>

\* routes.py:44  database[resource_name] = {'items': {}, 'next_id': 1}
GrInit(t) ==
    /\ pc[t] = "gr44"
    /\ heap' = Append(heap, InitResource)
    /\ database' = Register(database, tl[t].name, NewRef(heap))
    /\ tl' = Watch(tl, heap', database')
    /\ Goto(t, "gr45")
    /\ UNCHANGED <<last, maxIssued, deleted, log>>

\* routes.py:45  return database[resource_name]
GrReturn(t) ==
    /\ pc[t] = "gr45"
    /\ tl' = [tl EXCEPT ![t].resource = database[tl[t].name]]
    /\ Goto(t, CASE tl[t].op = "create" -> "l91"
                 [] tl[t].op = "delete" -> "l371"
                 [] tl[t].op = "list"   -> "l166")
    /\ UNCHANGED <<heap, database, last, maxIssued, deleted, log>>

\* routes.py:91-92  abort(400) on a falsy body
CreateReject(t) ==
    /\ pc[t] = "l91" /\ ~Truthy(tl[t].g)
    /\ Respond(t, 400, 0)
    /\ UNCHANGED <<heap, database, last, maxIssued, deleted>>

\* routes.py:94  item_id = resource['next_id']
CreateReadId(t) ==
    /\ pc[t] = "l91" /\ Truthy(tl[t].g)
    /\ tl' = [tl EXCEPT ![t].item_id = heap[tl[t].resource].next_id]
    /\ Goto(t, "l96")
    /\ UNCHANGED <<heap, database, last, maxIssued, deleted, log>>

\* routes.py:96  resource['items'][item_id] = data
CreateStore(t) ==
    /\ pc[t] = "l96"
    /\ heap' = [heap EXCEPT ![tl[t].resource] = StoreItem(@, tl[t].item_id, tl[t].g)]
    /\ tl' = Watch(tl, heap', database)
    /\ Goto(t, "l97")
    /\ UNCHANGED <<database, last, maxIssued, deleted, log>>

\* routes.py:97  the read of resource['next_id'] in `+= 1`
CreateLoadNextId(t) ==
    /\ pc[t] = "l97"
    /\ tl' = [tl EXCEPT ![t].tmp = heap[tl[t].resource].next_id]
    /\ Goto(t, "l97w")
    /\ UNCHANGED <<heap, database, last, maxIssued, deleted, log>>

\* routes.py:97  the write of `+= 1`; then 100-103, the 201 response
CreateWriteNextId(t) ==
    /\ pc[t] = "l97w"
    /\ heap' = [heap EXCEPT ![tl[t].resource].next_id = tl[t].tmp + 1]
    /\ Respond(t, 201, tl[t].item_id)
    /\ UNCHANGED <<database, last, maxIssued, deleted>>

\* routes.py:371  if item_id in resource['items'], else 374 abort(404)
DeleteCheck(t) ==
    /\ pc[t] = "l371"
    /\ IF DictHas(heap[tl[t].resource].items, tl[t].id)
       THEN Goto(t, "l372") /\ UNCHANGED <<tl, log>>
       ELSE Respond(t, 404, tl[t].id)
    /\ UNCHANGED <<heap, database, last, maxIssued, deleted>>

\* routes.py:372-373  del resource['items'][item_id]: KeyError (500) when
\* another thread removed the key since the test of line 371.
DeleteDel(t) ==
    /\ pc[t] = "l372"
    /\ IF DictHas(heap[tl[t].resource].items, tl[t].id)
       THEN /\ heap' = [heap EXCEPT ![tl[t].resource] = DeleteFrom(@, tl[t].id)]
            /\ Answer(Watch(Unholed(tl, tl[t].resource,
                                    DictIndex(heap[tl[t].resource].items, tl[t].id)),
                            heap', database),
                      t, 204, tl[t].id, <<>>)
       ELSE /\ heap' = heap
            /\ Respond(t, 500, tl[t].id)
    /\ UNCHANGED <<database, last, maxIssued, deleted>>

NextConc ==
    \E t \in Threads :
        \/ StartCreate(t) \/ StartDelete(t)
        \/ GrCheck(t) \/ GrInit(t) \/ GrReturn(t)
        \/ CreateReject(t) \/ CreateReadId(t) \/ CreateStore(t)
        \/ CreateLoadNextId(t) \/ CreateWriteNextId(t)
        \/ DeleteCheck(t) \/ DeleteDel(t)

SpecConc == Init /\ [][NextConc]_vars

\* ------------------------------------------------------------- lists among writes
\* GET /<resource_name> without parameters, interleaved with creates and
\* deletes of the same collection.
StartList(t) ==
    /\ pc[t] = "idle" /\ tl[t].served < MaxReqs
    /\ tl' = [tl EXCEPT ![t] =
                 [@ EXCEPT !.op = "list", !.name = ConcName,
                           !.snaps = {AllItems(View(heap, database, ConcName).items)}]]
    /\ Goto(t, "gr43")
    /\ UNCHANGED <<heap, database, last, maxIssued, deleted, log>>

\* routes.py:166  resource['items'].items() and iter(): the iterator keeps
\* the dict's size (tmp) and the number of items it has yet to yield (left).
ListIterStart(t) ==
    /\ pc[t] = "l166"
    /\ tl' = [tl EXCEPT ![t].tmp = Len(heap[tl[t].resource].items),
                        ![t].left = Len(heap[tl[t].resource].items),
                        ![t].pos = 0,
                        ![t].all_items = <<>>]
    /\ Goto(t, "l166n")
    /\ UNCHANGED <<heap, database, last, maxIssued, deleted, log>>

\* routes.py:166-169  one turn of the loop. The iterator raises RuntimeError
\* (an unhandled exception, 500) when the dict's size is no longer the one it
\* kept, or when it finds an entry after it has yielded as many as the dict
\* had; at the end of the entries the loop ends.
ListIterNext(t) ==
    /\ pc[t] = "l166n"
    /\ LET items == heap[tl[t].resource].items
       IN  IF Len(items) # tl[t].tmp
           THEN Respond(t, 500, 0)
           ELSE IF tl[t].pos >= Len(items)
           THEN Goto(t, "l171") /\ UNCHANGED <<tl, log>>
           ELSE IF tl[t].left = 0
           THEN Respond(t, 500, 0)
           ELSE /\ tl' = [tl EXCEPT
                            ![t].all_items =
                                Append(@, WithId(items[tl[t].pos + 1].data,
                                                 items[tl[t].pos + 1].id)),
                            ![t].pos = @ + 1,
                            ![t].left = @ - 1]
                /\ UNCHANGED <<pc, log>>
    /\ UNCHANGED <<heap, database, last, maxIssued, deleted>>

\* routes.py:171-190  the first page of the default limit, 200
ListRespond(t) ==
    /\ pc[t] = "l171"
    /\ Answer(tl, t, 200, 0,
              PySlice(tl[t].all_items, (DefaultPage - 1) * DefaultLimit,
                      (DefaultPage - 1) * DefaultLimit + DefaultLimit))
    /\ UNCHANGED <<heap, database, last, maxIssued, deleted>>

NextList ==
    \E t \in Threads :
        \/ StartList(t) \/ StartCreate(t) \/ StartDelete(t)
        \/ GrCheck(t) \/ GrInit(t) \/ GrReturn(t)
        \/ CreateReject(t) \/ CreateReadId(t) \/ CreateStore(t)
        \/ CreateLoadNextId(t) \/ CreateWriteNextId(t)
        \/ DeleteCheck(t) \/ DeleteDel(t)
        \/ ListIterStart(t) \/ ListIterNext(t) \/ ListRespond(t)

SpecList == Init /\ [][NextList]_vars

\* ------------------------------------------------------------- the /items router
\* src/items.py: every endpoint of the router depends on simulate_error, which
\* the framework runs to its end before it calls the endpoint.
EmptyArg == [t |-> "empty", v |-> 0]
KeywordArg == [t |-> "timeout", v |-> 0]
SimCodes == {400, 401, 403, 404, 422, 500, 502, 503, 504, 418}
SimErrors == { NoArg, EmptyArg, KeywordArg, TextArg } \cup { IntArg(n) : n \in SimCodes }

\* items.py:23  await asyncio.sleep(10)
SimTimeoutSeconds == 10

\* items.py:28-33  error_messages.get(status_code, "Unknown Error")
error_messages(status_code) ==
    CASE status_code = 400 -> "Bad Request"
      [] status_code = 401 -> "Unauthorized"
      [] status_code = 403 -> "Forbidden"
      [] status_code = 404 -> "Not Found"
      [] status_code = 422 -> "Unprocessable Entity"
      [] status_code = 500 -> "Internal Server Error"
      [] status_code = 502 -> "Bad Gateway"
      [] status_code = 503 -> "Service Unavailable"
      [] status_code = 504 -> "Gateway Timeout"
      [] OTHER -> "Unknown Error"

Raised(status, slept, detail) ==
    [raised |-> TRUE, status |-> status, slept |-> slept, detail |-> detail]
Returned == [raised |-> FALSE, status |-> 0, slept |-> 0, detail |-> ""]

\* items.py:13-36. query_params.get('error') is None without the parameter
\* and '' for ?error= ; `not error_code` holds for both.
simulate_error(error_code) ==
    IF error_code.t \in {"absent", "empty"}
    THEN Returned
    ELSE IF error_code.t = "timeout"
    THEN Raised(504, SimTimeoutSeconds, "Timeout: Request took too long")
    ELSE IF error_code.t = "int"
    THEN Raised(error_code.v, 0, error_messages(error_code.v))
    ELSE Raised(400, 0, "Invalid 'error' parameter. Must be an integer or 'timeout'.")

\* A request to the router: the dependency, then the endpoint unless the
\* dependency raised. `status` is what the endpoint answers.
ServeItems(op, id, error_code, status) ==
    LET dep == simulate_error(error_code)
    IN  /\ last' = [NoRequest EXCEPT
                       !.op = op, !.id = id, !.error = error_code,
                       !.status = IF dep.raised THEN dep.status ELSE status,
                       !.resp = [t |-> "items",
                                 v |-> [ran |-> ~dep.raised, slept |-> dep.slept,
                                        detail |-> dep.detail]]]
        /\ UNCHANGED <<heap, database, maxIssued, deleted, pc, tl, log>>

\* What crud.get_item_by_id, crud.update_item and crud.delete_item tell the
\* endpoint: the item is there, or it is not (404).
FoundOrNot == { 200, 404 }

\* items.py:41-43  POST /items/
create_item_endpoint == \E e \in SimErrors : ServeItems("items.create", 0, e, 201)
\* items.py:46-48  GET /items/
get_items_endpoint == \E e \in SimErrors : ServeItems("items.list", 0, e, 200)
\* items.py:51-56  GET /items/{item_id}
get_item_endpoint ==
    \E e \in SimErrors, id \in Ids, st \in FoundOrNot : ServeItems("items.get", id, e, st)
\* items.py:59-64  PUT /items/{item_id}
update_item_endpoint ==
    \E e \in SimErrors, id \in Ids, st \in FoundOrNot : ServeItems("items.update", id, e, st)
\* items.py:67-72  DELETE /items/{item_id}
delete_item_endpoint ==
    \E e \in SimErrors, id \in Ids, st \in FoundOrNot : ServeItems("items.delete", id, e, st)

NextItems ==
    \/ create_item_endpoint \/ get_items_endpoint \/ get_item_endpoint
    \/ update_item_endpoint \/ delete_item_endpoint

SpecItems == Init /\ [][NextItems]_vars

\* ------------------------------------------------------------- properties
StoredPayloads ==
    UNION { { heap[r].items[i].data : i \in DOMAIN heap[r].items } : r \in DOMAIN heap }

\* C1: every successful create returns an id greater than every id an
\* earlier create of that collection returned, whatever requests came between.
IdsStrictlyIncrease ==
    [][ (last'.op = "create" /\ last'.status = 201)
            => last'.resp.v._id > maxIssued[last'.name] ]_vars

\* A create that got id 2 while id 1, issued before, is deleted.
CreateAfterDelete ==
    /\ last.op = "create" /\ last.status = 201
    /\ last.resp.v._id = 2
    /\ maxIssued[last.name] = 2
    /\ ~DictHas(Coll(last.name).items, 1)

\* C2: creates of one collection that run concurrently and succeed return
\* pairwise distinct ids.
ConcurrentCreatesDistinctIds ==
    \A i, j \in DOMAIN log :
        (i # j /\ log[i].op = "create" /\ log[j].op = "create"
             /\ log[i].status = 201 /\ log[j].status = 201 /\ log[i].name = log[j].name)
            => log[i].id # log[j].id

\* C3: once the concurrent requests have all completed, every item whose
\* create returned 201 and whose id no delete removed is stored under that id.
Quiescent == \A t \in Threads : pc[t] = "idle"
Deleted(name, id) ==
    \E j \in DOMAIN log :
        log[j].op = "delete" /\ log[j].status = 204 /\ log[j].name = name /\ log[j].id = id
NoLostUpdate ==
    Quiescent =>
        \A i \in DOMAIN log :
            (log[i].op = "create" /\ log[i].status = 201 /\ ~Deleted(log[i].name, log[i].id))
                => /\ log[i].name \in DOMAIN database
                   /\ DictHas(Coll(log[i].name).items, log[i].id)
                   /\ DictGet(Coll(log[i].name).items, log[i].id) = log[i].g

\* C4: in every collection next_id is at least 1 and above every stored id,
\* and no request decreases it.
NextIdBounds ==
    \A name \in DOMAIN database :
        /\ Coll(name).next_id >= 1
        /\ \A id \in DictKeys(Coll(name).items) : id < Coll(name).next_id
NextIdNeverDecreases ==
    \A name \in DOMAIN database :
        /\ name \in DOMAIN database'
        /\ heap'[database'[name]].next_id >= Coll(name).next_id
        /\ last'.op = "delete" => heap'[database'[name]].next_id = Coll(name).next_id
NextIdInvariant == []NextIdBounds /\ [][NextIdNeverDecreases]_vars

\* A delete emptied a collection whose counter stays above the ids it issued.
DeleteKeepsNextId ==
    /\ last.op = "delete" /\ last.status = 204
    /\ Coll(last.name).items = EmptyDict
    /\ Coll(last.name).next_id = 3

\* C5: a create whose body is absent, empty or no JSON object is answered
\* 400 and leaves the collection's items and next_id as they were.
NotAnObject(body) == body \in EmptyBodies \cup NonObjectBodies
CreateRejectsNonObjects ==
    [][ (last'.op = "create" /\ NotAnObject(last'.body))
            => /\ last'.status = 400
               /\ View(heap', database', last'.name) = View(heap, database, last'.name) ]_vars

\* C6: a list request whose page or limit is no integer is answered 400 and
\* leaves the store, its set of names included, as it was.
BadPageLeavesStore ==
    [][ (last'.op = "list" /\ (ParseFails(last'.page) \/ ParseFails(last'.limit)))
            => /\ last'.status = 400
               /\ database' = database
               /\ heap' = heap ]_vars

\* C7: a request on a collection route with ?error=n is answered with status
\* n, the handler does not run and the store is as it was.
ErrorParamShortCircuits ==
    [][ (last'.op \in {"create", "list", "get"} /\ last'.error.t = "int")
            => /\ last'.status = last'.error.v
               /\ database' = database
               /\ heap' = heap ]_vars

\* C8: a create carrying the timeout directive ends 504 and creates nothing,
\* and no stored payload has the control key.
HasControl(data) == data.t = "obj" /\ "control" \in DOMAIN data.v
TimeoutDirectiveCreatesNothing ==
    [][ (last'.op = "create" /\ last'.body = JObj(TimeoutDirective))
            => /\ last'.status = 504
               /\ View(heap', database', last'.name) = View(heap, database, last'.name)
               /\ \A data \in StoredPayloads' : ~HasControl(data) ]_vars

\* A get of the id the request just before it, a successful create, returned.
GetFollowsCreate ==
    /\ last.op = "create" /\ last.status = 201
    /\ last'.op = "get" /\ last'.name = last.name /\ last'.id = last.resp.v._id

\* C9 as stated: the get returns exactly the payload's keys and values plus
\* the assigned id.
GetReturnsPayloadPlusId ==
    [][ GetFollowsCreate
            => /\ last'.status = 200
               /\ DOMAIN last'.resp.v = DOMAIN last.body.v \cup {"_id"}
               /\ \A k \in DOMAIN last.body.v : last'.resp.v[k] = last.body.v[k]
               /\ last'.resp.v._id = last'.id ]_vars

\* C9, amended: the get returns the payload's keys and values other than
\* _id, and _id is the assigned id, also when the payload had an _id of its own.
GetReturnsPayloadWithIdSet ==
    [][ GetFollowsCreate
            => /\ last'.status = 200
               /\ DOMAIN last'.resp.v = DOMAIN last.body.v \cup {"_id"}
               /\ \A k \in DOMAIN last.body.v \ {"_id"} : last'.resp.v[k] = last.body.v[k]
               /\ last'.resp.v._id = last'.id ]_vars

\* A get answered with the assigned id 1 for an item, the only one of its
\* collection, whose payload was created with an _id of 7.
GetMasksPayloadId ==
    /\ last.op = "get" /\ last.status = 200 /\ last.id = 1
    /\ Coll(last.name).next_id = 2
    /\ DictGet(Coll(last.name).items, 1) = JObj([a |-> 2, _id |-> 7])
    /\ last.resp = JObj([a |-> 2, _id |-> 1])

\* C10: no stored payload has the key _id.
HasId(data) == data.t = "obj" /\ "_id" \in DOMAIN data.v
NoStoredId == \A data \in StoredPayloads : ~HasId(data)

\* C11: once a delete of an id has succeeded, the id is absent from its
\* collection ever after and every get of it is answered 404.
GetAfterDeleteNotFound ==
    /\ \A d \in deleted : ~DictHas(Coll(d.name).items, d.id)
    /\ (last.op = "get" /\ [name |-> last.name, id |-> last.id] \in deleted)
           => last.status = 404

\* A get of the deleted id 1, answered 404 after a later create got id 2.
GetDeletedAfterCreate ==
    /\ last.op = "get" /\ last.id = 1 /\ last.status = 404
    /\ [name |-> last.name, id |-> 1] \in deleted
    /\ maxIssued[last.name] = 2
    /\ DictHas(Coll(last.name).items, 2)

\* C12: a patch answered 200 leaves, under the id, the stored keys together
\* with the partial payload's keys, each key of the partial payload with the
\* partial payload's value and every other key with its stored value; a
\* replace answered 200 leaves the stored payload equal to the new payload.
PatchMergesReplaceOverwrites ==
    [][ /\ (last'.op = "patch" /\ last'.status = 200) =>
              LET old == DictGet(View(heap, database, last'.name).items, last'.id).v
                  new == DictGet(View(heap', database', last'.name).items, last'.id).v
                  partial == last'.body.v
              IN  /\ DOMAIN new = DOMAIN old \cup DOMAIN partial
                  /\ \A k \in DOMAIN partial : new[k] = partial[k]
                  /\ \A k \in DOMAIN old \ DOMAIN partial : new[k] = old[k]
        /\ (last'.op = "replace" /\ last'.status = 200) =>
              DictGet(View(heap', database', last'.name).items, last'.id) = last'.body ]_vars

\* A patch with {a, _id} of a stored payload that has description and control:
\* both are still stored, next to the patched keys.
PatchKeptOtherKeys ==
    /\ last.op = "patch" /\ last.status = 200
    /\ LET new == DictGet(Coll(last.name).items, last.id).v
       IN  /\ new.a = 2 /\ new._id = 7
           /\ "description" \in DOMAIN new
           /\ new.control = TimeoutDirective.control

\* The page, the limit and the items of the latest list request.
PageOf(req) == ParseInt(req.page, DefaultPage)
LimitOf(req) == ParseInt(req.limit, DefaultLimit)
Listed == Coll(last.name).items
Least(a, b) == IF a < b THEN a ELSE b

\* C13: for n items, page >= 1 and limit >= 1, total_pages is the least k
\* with k * limit >= n (0 for n = 0), data is the items at positions
\* (page-1)*limit+1 .. min(page*limit, n) of the ascending-id order, each with
\* its _id, and a page beyond total_pages has empty data.
PageOfAscendingIds ==
    (last.op = "list" /\ PageOf(last) >= 1 /\ LimitOf(last) >= 1) =>
        /\ last.status = 200
        /\ LET n == Len(Listed)
               first == (PageOf(last) - 1) * LimitOf(last) + 1
               final == Least(PageOf(last) * LimitOf(last), n)
               data == last.resp.v.data
               meta == last.resp.v.meta
           IN  /\ \A i, j \in DOMAIN Listed : i < j => Listed[i].id < Listed[j].id
               /\ meta.total_items = n
               /\ meta.total_pages >= 0
               /\ meta.total_pages * LimitOf(last) >= n
               /\ meta.total_pages > 0 => (meta.total_pages - 1) * LimitOf(last) < n
               /\ Len(data) = IF final >= first THEN final + 1 - first ELSE 0
               /\ \A j \in DOMAIN data :
                      /\ data[j].v._id = Listed[first + j - 1].id
                      /\ data[j].v.a = Listed[first + j - 1].data.v.a
               /\ PageOf(last) > meta.total_pages => data = <<>>

\* 45 items under the default limit 20: page 3 of 3 carries the last 5.
ThirdPageOfFortyFive ==
    /\ last.op = "list" /\ last.status = 200
    /\ Len(Listed) = 45 /\ last.limit = NoArg /\ last.page = IntArg(3)
    /\ last.resp.v.meta.total_pages = 3
    /\ Len(last.resp.v.data) = 5
    /\ last.resp.v.data[1].v._id = 41

\* C14: a list request with well-formed parameters on a name that is not in
\* the database is answered 200 with empty data, total_items 0 and
\* total_pages 0, and puts the name in the database; no name ever leaves the
\* database, and a list-collections request returns the database's names.
ListOfNewNameIsEmpty ==
    /\ [](last.op = "names" /\ last.status = 200 => last.resp.v = DOMAIN database)
    /\ [][ /\ DOMAIN database \subseteq DOMAIN database'
           /\ ( /\ last'.op = "list" /\ last'.name \notin DOMAIN database
                /\ ~ParseFails(last'.page) /\ ~ParseFails(last'.limit)
                /\ LimitOf(last') # 0 ) =>
                  /\ last'.status = 200
                  /\ last'.resp.v.data = <<>>
                  /\ last'.resp.v.meta.total_items = 0
                  /\ last'.resp.v.meta.total_pages = 0
                  /\ last'.name \in DOMAIN database' ]_vars

\* The first request ever was a list: it is answered with an empty page and
\* its collection is the only one of the database.
ListMadeTheCollection ==
    /\ last.op = "list" /\ last.status = 200 /\ last.page = IntArg(2)
    /\ last.resp.v.data = <<>> /\ last.resp.v.meta.total_pages = 0
    /\ DOMAIN database = {last.name}
    /\ heap = <<InitResource>>

\* C15: every list request served among creates and deletes is answered 200
\* and its data is what the collection held at some time while the request
\* was served.
ListSeesSnapshot ==
    \A i \in DOMAIN log :
        log[i].op = "list" => (log[i].status = 200 /\ log[i].data \in log[i].snaps)

\* C16: a list request with limit >= 1 whose slice starts below 0 (page <= 0)
\* or at or beyond the number of items is answered without error, with
\* empty data.
StartIndexOf(req) == (PageOf(req) - 1) * LimitOf(req)
SliceOutOfRangeIsEmpty ==
    ( /\ last.op = "list" /\ LimitOf(last) >= 1
      /\ (StartIndexOf(last) < 0 \/ StartIndexOf(last) >= Len(Listed)) ) =>
        (last.status = 200 /\ last.resp.v.data = <<>>)

\* C17: a list request with an integer limit <= 0 is answered 200 with data
\* and meta.
NonPositiveLimitAnswers ==
    (last.op = "list" /\ last.limit.t = "int" /\ last.limit.v <= 0) =>
        /\ last.status = 200
        /\ last.resp.t = "page"
        /\ {"data", "meta"} \subseteq DOMAIN last.resp.v

\* C18: on every endpoint of the router, ?error=timeout is answered 504
\* after the suspension, an integer n is answered n, and a parameter that is
\* present with any other value is answered 400; in all three cases the
\* endpoint is not run.
ItemsOps == {"items.create", "items.list", "items.get", "items.update", "items.delete"}
SimulatorClassifies ==
    (last.op \in ItemsOps /\ last.error # NoArg) =>
        /\ ~last.resp.v.ran
        /\ last.status = CASE last.error.t = "timeout" -> 504
                            [] last.error.t = "int" -> last.error.v
                            [] OTHER -> 400
        /\ last.error.t = "timeout" => last.resp.v.slept = SimTimeoutSeconds

\* C19: a replace or patch whose body is absent or empty is answered 400,
\* whether or not the id is there; a replace or patch with a body, and a
\* delete, of an id that is not in the collection is answered 404; either way
\* the collection's items and next_id are as they were.
RejectedWritesChangeNothing ==
    [][ last'.op \in {"replace", "patch", "delete"} =>
          LET before == View(heap, database, last'.name)
              after == View(heap', database', last'.name)
              empty == last'.op # "delete" /\ last'.body \in {NoBody, JObj(EmptyObj)}
          IN  /\ empty => (last'.status = 400 /\ after = before)
              /\ (~empty /\ ~DictHas(before.items, last'.id)) =>
                     (last'.status = 404 /\ after = before) ]_vars

\* A replace without a body of an id that is not stored, answered 400, in a
\* collection that holds an item.
EmptyBodyBeforeAbsentId ==
    /\ last.op = "replace" /\ last.body = NoBody /\ last.status = 400
    /\ ~DictHas(Coll(last.name).items, last.id)
    /\ Coll(last.name).items # EmptyDict

\* C20: no request takes a name out of the database; a request whose
\* handler runs puts its name there; and a request leaves the items and the
\* next_id of every collection other than the one it names as they were.
CollectionsStayApart ==
    [][ /\ DOMAIN database \subseteq DOMAIN database'
        /\ (last'.op # "names" /\ last'.body # BadJson) => last'.name \in DOMAIN database'
        /\ \A n \in Names :
              n # last'.name => View(heap', database', n) = View(heap, database, n) ]_vars

\* A delete has emptied a collection that had been given an id; the name is
\* still in the database, next to a collection that holds an item.
EmptiedCollectionStays ==
    /\ last.op = "delete" /\ last.status = 204
    /\ last.name \in DOMAIN database
    /\ Coll(last.name).items = EmptyDict /\ Coll(last.name).next_id = 2
    /\ \E n \in DOMAIN database : n # last.name /\ Coll(n).items # EmptyDict

=============================================================================
